---------------------------- MODULE Spec2Model ----------------------------
(***************************************************************************)
(* A model of OgbujiPT's OpenAI-compatible LLM wrappers and their          *)
(* first-choice extraction helpers, of the dispatch of calls to worker     *)
(* processes (pylib/llm_wrapper.py), of the construction of the PGVector   *)
(* helper (pylib/embedding/pgvector.py) and of the Alpaca/Vicuna prompt    *)
(* templates (pylib/model_style/alvic.py).                                 *)
(*                                                                         *)
(* Python values are modelled as strings, sequences and functions.  A      *)
(* call that can raise yields a record [exc, val]: exc = "none" and val    *)
(* the returned value, or exc the name of the exception raised.            *)
(***************************************************************************)
EXTENDS Naturals, Sequences, FiniteSets, TLC

VARIABLES
    wrappers,           \* wrapper instance -> its attributes (live = FALSE: not constructed)
    openai_api_global,  \* the openai module's process-wide attributes
    endpoint,           \* how the /models path answers at present
    last,               \* the operation performed last, its inputs and its outcome
    pgvector,           \* a construction of the vector-store helper: arguments and outcome
    extraction,         \* a first-choice extraction: the response and the outcome
    tasks,              \* dispatched call -> its callable, arguments, progress and outcome
    executors,          \* the worker pools created so far
    rendered            \* a rendering of a prompt: the arguments and the outcome

vars == <<wrappers, openai_api_global, endpoint, last, pgvector, extraction,
          tasks, executors, rendered>>

----------------------------------------------------------------------------
(* Bounds of the exploration *)

\* number of wrapper instances held by the process
MaxWrappers == 2
\* longest "data" array a /models answer carries
MaxModels == 2
\* longest table name given to the vector-store helper
MaxNameLen == 3
\* longest "choices" array of a response
MaxChoices == 2
\* number of calls dispatched to worker processes
MaxTasks == 2
\* longest message and longest auxiliary input rendered, in pieces
MaxTextLen == 2

----------------------------------------------------------------------------
(* Python values *)

None == "None"
\* an attribute that was never assigned (reading it raises AttributeError)
Unset == "<unset>"

Ret(v) == [exc |-> "none", val |-> v]
Raise(e) == [exc |-> e, val |-> None]

\* the empty dict
EmptyDict == [k \in {} |-> None]

\* {**a, **b}: the keys of both, b's value where both have the key
DictMerge(a, b) ==
    [k \in (DOMAIN a) \cup (DOMAIN b) |-> IF k \in DOMAIN b THEN b[k] ELSE a[k]]

\* the sequences of at most n elements of S
SeqsUpTo(S, n) == UNION {[1..k -> S] : k \in 0..n}

\* all dicts with keys among ks and values among vs
Dicts(ks, vs) == UNION {[d -> vs] : d \in SUBSET ks}

----------------------------------------------------------------------------
(* Module-level names of llm_wrapper.py *)

OPENAI_GLOBALS ==
    {"api_key", "api_key_path", "api_base", "organization", "api_type",
     "api_version", "proxy", "app_info", "debug", "log"}

DEFAULT_OPENAI_API_BASE == "https://api.openai.com/v1"

OPENAI_KEY_DUMMY == "OPENAI_KEY_DUMMY"

\* the attributes of the openai module the wrappers write
GlobalAttrs == OPENAI_GLOBALS \cup {"model"}

\* the openai module right after import
ImportedGlobal(environ_key) ==
    [k \in GlobalAttrs |->
        CASE k = "api_base" -> DEFAULT_OPENAI_API_BASE
          [] k = "api_key" -> environ_key
          [] k = "model" -> Unset
          [] OTHER -> None]

----------------------------------------------------------------------------
(* Inputs *)

Wrappers == 1..MaxWrappers

\* the two wrapper classes; openai_chat_api extends openai_api
Classes == {"openai_api", "openai_chat_api"}

\* identifiers a /models endpoint may report
ModelIds == {"m", "llama", "mistral"}

\* model= argument of the constructor
ModelArgs == {None, "gpt"}

\* api_key= argument of the constructor, and the OPENAI_API_KEY environment variable
ApiKeyArgs == {None, "sk-arg"}
Environ == {None, "sk-env"}

\* api_base= argument of the constructor as iri.split_uri_ref splits it
\* (scheme and authority together, then the path); all empty is a falsy api_base
ApiBaseArgs ==
    {[authority |-> "", path |-> ""],
     [authority |-> "http://localhost:8000", path |-> ""],
     [authority |-> "http://localhost:8000", path |-> "/api"]}

\* keyword parameters given to the constructor (the parameter bag) and to a call
ParamValues == {"a", "b"}
CallValues == {"b"}
BagKeys == {"organization", "temperature"}
CallKeys == {"temperature", "model"}
Bags == Dicts(BagKeys, ParamValues)
Overrides == Dicts(CallKeys, CallValues)

\* what httpx.get(f'{api_base}/models').json() does: httpx cannot be imported,
\* the request fails, or a JSON answer whose "data" array lists these ids
HttpAnswers ==
    {[kind |-> "no_httpx", data |-> <<>>], [kind |-> "error", data |-> <<>>]}
    \cup {[kind |-> "json", data |-> d] : d \in SeqsUpTo(ModelIds, MaxModels)}

\* what the request function does: raises, or returns a response with this model field
RawModels == {"HOSTED_MODEL", "served", None}
ApiBehaviours ==
    {[raises |-> TRUE, model |-> None]}
    \cup {[raises |-> FALSE, model |-> m] : m \in RawModels}

----------------------------------------------------------------------------
(* openai_api *)

NoWrapper ==
    [live |-> FALSE, cls |-> None, model |-> Unset, original_model |-> Unset,
     api_key |-> Unset, api_base |-> Unset, parameters |-> EmptyDict]

NoApi == [raises |-> FALSE, model |-> None]

NoRequest == [issued |-> FALSE, model |-> None, params |-> EmptyDict]

\* available_models: the first id of the answer's data array
available_models(ans) ==
    CASE ans.kind = "no_httpx" -> Raise("RuntimeError")
      [] ans.kind = "error" -> Raise("HTTPError")
      [] OTHER -> IF Len(ans.data) = 0
                  THEN Raise("StopIteration")
                  ELSE Ret(ans.data[1])

\* hosted_model: len(models) > 1 is taken of what available_models returned
hosted_model(self_model, ans) ==
    LET models == available_models(ans) IN
    IF models.exc # "none" THEN models
    ELSE IF Len(models.val) > 1 THEN Ret(models.val)
    ELSE IF self_model = Unset THEN Raise("AttributeError")
    ELSE Ret(self_model)

\* a _claim_global_context that introspects the model of every wrapper,
\* also of one built with an explicit model
claim_always_introspects(self, glob, ans) ==
    LET g1 == [k \in GlobalAttrs |->
                  IF k \in OPENAI_GLOBALS /\ k \in DOMAIN self.parameters
                  THEN self.parameters[k] ELSE glob[k]]
        g2 == [g1 EXCEPT !["model"] = self.model,
                         !["api_key"] = self.api_key,
                         !["api_base"] = self.api_base]
        hm == hosted_model(self.model, ans)
    IN  [exc |-> hm.exc,
         self |-> IF hm.exc = "none" THEN [self EXCEPT !.model = hm.val] ELSE self,
         glob |-> g2, queries |-> 1]

\* _claim_global_context: the globals are written first, the model is
\* introspected afterwards; [exc, self, glob, queries]
claim_global_context(self, glob, ans) ==
    LET g1 == [k \in GlobalAttrs |->
                  IF k \in OPENAI_GLOBALS /\ k \in DOMAIN self.parameters
                  THEN self.parameters[k] ELSE glob[k]]
        g2 == [g1 EXCEPT !["model"] = self.model,
                         !["api_key"] = self.api_key,
                         !["api_base"] = self.api_base]
    IN  IF self.original_model = None
        THEN LET hm == hosted_model(self.model, ans) IN
             [exc |-> hm.exc,
              self |-> IF hm.exc = "none" THEN [self EXCEPT !.model = hm.val] ELSE self,
              glob |-> g2, queries |-> 1]
        ELSE [exc |-> "none", self |-> self, glob |-> g2, queries |-> 0]

\* __init__ up to the attributes of the new instance: [exc, self, queries]
openai_api_init(cls, model, api_base, api_key, kwargs, environ, ans) ==
    LET key == IF api_key = None
               THEN (IF environ = None THEN OPENAI_KEY_DUMMY ELSE environ)
               ELSE api_key
        path == IF api_base.path # "" THEN api_base.path
                ELSE IF "api_version" \in DOMAIN kwargs THEN kwargs["api_version"]
                ELSE "/v1"
        base == IF api_base.authority \o api_base.path # ""
                THEN api_base.authority \o path
                ELSE DEFAULT_OPENAI_API_BASE
        hm == IF model # None THEN Ret(model) ELSE hosted_model(Unset, ans)
    IN  [exc |-> hm.exc,
         self |-> [live |-> TRUE, cls |-> cls, model |-> hm.val,
                   original_model |-> model, api_key |-> key, api_base |-> base,
                   parameters |-> kwargs],
         queries |-> IF model # None THEN 0 ELSE 1]

\* a merge in which the stored parameter wins
stored_wins(parameters, kwargs) == DictMerge(kwargs, parameters)

\* merged_kwargs = {**self.parameters, **kwargs}
merged_kwargs(parameters, kwargs) == DictMerge(parameters, kwargs)

\* api_func(model=self.model, prompt=prompt, **merged): a keyword given twice
\* is a TypeError raised before api_func runs
keyword_clash(explicit, dicts) ==
    \/ \E i \in 1..Len(dicts) : (DOMAIN dicts[i]) \cap explicit # {}
    \/ \E i, j \in 1..Len(dicts) : i < j /\ (DOMAIN dicts[i]) \cap (DOMAIN dicts[j]) # {}

\* a __call__ that returns the raw response as it is
never_rewrite(raw_model, self_model) == raw_model

\* the response __call__ returns for a raw response with this model field
rewrite_hosted_model(raw_model, self_model) ==
    IF raw_model = "HOSTED_MODEL" THEN self_model ELSE raw_model

\* what a call did: [exc, self, glob, request, ret]
CallOutcome(exc, self, glob, request, ret) ==
    [exc |-> exc, self |-> self, glob |-> glob, request |-> request, ret |-> ret]

\* the request function applied to the keyword arguments it is called with
ApiCall(c, explicit, dicts, api) ==
    IF keyword_clash(explicit, dicts)
    THEN CallOutcome("TypeError", c.self, c.glob, NoRequest, None)
    ELSE LET params == [k \in UNION {DOMAIN dicts[i] : i \in 1..Len(dicts)} |->
                           dicts[CHOOSE i \in 1..Len(dicts) : k \in DOMAIN dicts[i]][k]]
             request == [issued |-> TRUE, model |-> c.self.model, params |-> params]
         IN  IF api.raises
             THEN CallOutcome("APIError", c.self, c.glob, request, None)
             ELSE CallOutcome("none", c.self, c.glob, request, api.model)

\* openai_api.__call__
openai_api_call(self, glob, kwargs, ans, api) ==
    LET c == claim_global_context(self, glob, ans)
        result == ApiCall(c, {"model", "prompt"},
                          <<merged_kwargs(self.parameters, kwargs)>>, api)
    IN  IF c.exc # "none"
        THEN CallOutcome(c.exc, c.self, c.glob, NoRequest, None)
        ELSE IF result.exc # "none" THEN result
        ELSE [result EXCEPT !.ret = rewrite_hosted_model(result.ret, c.self.model)]

\* openai_chat_api.__call__
openai_chat_api_call(self, glob, kwargs, ans, api) ==
    LET c == claim_global_context(self, glob, ans)
    IN  IF c.exc # "none"
        THEN CallOutcome(c.exc, c.self, c.glob, NoRequest, None)
        ELSE ApiCall(c, {"model", "messages"}, <<self.parameters, kwargs>>, api)

----------------------------------------------------------------------------
(* PGVectorHelper: pylib/embedding/pgvector.py *)

\* characters of a table name: a letter, a decimal digit, the vulgar fraction
\* one half (numeric, neither letter nor digit), the underscore, a space, a semicolon
Letters == {"a"}
Digits == {"7"}
OtherNumerics == {"U+00BD"}
NameChars == Letters \cup Digits \cup OtherNumerics \cup {"_", " ", ";"}
TableNames == SeqsUpTo(NameChars, MaxNameLen)

\* str.replace(old, '') for a one-character old
str_remove(str, old) ==
    LET RECURSIVE rm(_)
        rm(i) == IF i > Len(str) THEN <<>>
                 ELSE (IF str[i] = old THEN <<>> ELSE <<str[i]>>) \o rm(i + 1)
    IN  rm(1)

\* str.isalnum(): at least one character, and each of them alphabetic,
\* decimal, digit or numeric
str_isalnum(str) ==
    /\ Len(str) > 0
    /\ \A i \in 1..Len(str) : str[i] \in Letters \cup Digits \cup OtherNumerics

\* a check of the name that does not let the underscore through
isalnum_only(table_name) == str_isalnum(table_name)

\* table_name.replace('_', '').isalnum()
table_name_ok(table_name) == str_isalnum(str_remove(table_name, "_"))

EmbeddingModels == {None, "SentenceTransformer", "OtherModel"}

NoHelper == [live |-> FALSE, table_name |-> <<>>, embedding_model |-> None,
             embed_dimension |-> 0]

\* PGVectorHelper.__init__: [exc, msg, self]
PGVectorHelper_init(PREREQS_AVAILABLE, embedding_model, table_name) ==
    IF ~PREREQS_AVAILABLE
    THEN [exc |-> "RuntimeError", msg |-> "pgvector not installed", self |-> NoHelper]
    ELSE IF ~table_name_ok(table_name)
    THEN [exc |-> "ValueError", msg |-> "table_name must be alphanumeric",
          self |-> NoHelper]
    ELSE IF embedding_model \notin {None, "SentenceTransformer"}
    THEN [exc |-> "ValueError", msg |-> "embedding_model must be a SentenceTransformer",
          self |-> NoHelper]
    ELSE [exc |-> "none", msg |-> "",
          self |-> [live |-> TRUE, table_name |-> table_name,
                    embedding_model |-> embedding_model,
                    embed_dimension |-> IF embedding_model = None THEN 0 ELSE 1]]

NoHelperCall ==
    [op |-> "none", PREREQS_AVAILABLE |-> TRUE, embedding_model |-> None,
     table_name |-> <<>>, conn |-> <<>>, exc |-> "none", msg |-> "",
     helper |-> NoHelper]

\* PGVectorHelper(embedding_model, table_name, conn)
NewHelper ==
    /\ pgvector.op = "pending"
    /\ LET r == PGVectorHelper_init(pgvector.PREREQS_AVAILABLE,
                                    pgvector.embedding_model, pgvector.table_name)
       IN  pgvector' = [pgvector EXCEPT !.op = "__init__", !.exc = r.exc,
                                        !.msg = r.msg, !.helper = r.self]
    /\ UNCHANGED <<wrappers, openai_api_global, endpoint, last, extraction, tasks, executors, rendered>>

\* await PGVectorHelper.from_connection(embedding_model, table_name, conn):
\* the extension and the codecs are set up on the connection, then cls(...)
FromConnection ==
    /\ pgvector.op = "pending"
    /\ LET r == PGVectorHelper_init(pgvector.PREREQS_AVAILABLE,
                                    pgvector.embedding_model, pgvector.table_name)
       IN  pgvector' = [pgvector EXCEPT
                           !.op = "from_connection",
                           !.conn = <<"CREATE EXTENSION IF NOT EXISTS vector;",
                                      "register_vector", "set_type_codec JSON">>,
                           !.exc = r.exc, !.msg = r.msg, !.helper = r.self]
    /\ UNCHANGED <<wrappers, openai_api_global, endpoint, last, extraction, tasks, executors, rendered>>

----------------------------------------------------------------------------
(* first_choice_text and first_choice_message *)

\* Python values of a response: tagged with their type, the value in the
\* field of that type
PyNone == [t |-> "NoneType", s |-> "", l |-> <<>>, d |-> <<>>]
PyStr(str) == [t |-> "str", s |-> str, l |-> <<>>, d |-> <<>>]
PyList(seq) == [t |-> "list", s |-> "", l |-> seq, d |-> <<>>]
PyDict(fcn) == [t |-> "dict", s |-> "", l |-> <<>>, d |-> fcn]

\* the integer 0 as a subscript (no dict of a response has an integer key)
Zero == "<int 0>"

\* x[key] for a string key, x[0] for key = Zero
getitem(x, key) ==
    CASE x.t = "dict" ->
            IF key \in DOMAIN x.d THEN Ret(x.d[key]) ELSE Raise("KeyError")
      [] x.t = "list" ->
            IF key # Zero THEN Raise("TypeError")
            ELSE IF Len(x.l) = 0 THEN Raise("IndexError")
            ELSE Ret(x.l[1])
      [] x.t = "str" ->
            IF key # Zero THEN Raise("TypeError")
            ELSE IF x.s = "" THEN Raise("IndexError")
            ELSE Ret(PyStr(IF x.s = "hi" THEN "h" ELSE x.s))
      [] OTHER -> Raise("TypeError")

\* response[k1][k2]..., stopping at the first subscript that raises
RECURSIVE subscript(_, _)
subscript(x, keys) ==
    IF Len(keys) = 0 THEN Ret(x)
    ELSE LET r == getitem(x, Head(keys)) IN
         IF r.exc # "none" THEN r ELSE subscript(r.val, Tail(keys))

\* except KeyError: raise RuntimeError(f'...{repr(response)}')
except_KeyError(r, response) ==
    IF r.exc = "KeyError"
    THEN [exc |-> "RuntimeError", val |-> None, msg_repr |-> response]
    ELSE [exc |-> r.exc, val |-> r.val, msg_repr |-> None]

first_choice_text(response) ==
    except_KeyError(subscript(response, <<"choices", Zero, "text">>), response)

first_choice_message(response) ==
    except_KeyError(subscript(response, <<"choices", Zero, "message", "content">>), response)

\* the responses tried: JSON objects with values of every type at every
\* place of the path
Leaves == {PyNone, PyStr(""), PyStr("hi")}
Messages == Leaves \cup {PyDict(d) : d \in Dicts({"content"}, Leaves)}
ChoiceDicts ==
    {PyDict(d) : d \in Dicts({"text"}, {PyStr("hi")})}
    \cup {PyDict(d) : d \in Dicts({"message"}, Messages)}
Choices == {PyNone, PyStr("hi")} \cup ChoiceDicts
ChoiceLists ==
    Leaves \cup {PyDict(EmptyDict)} \cup {PyList(l) : l \in SeqsUpTo(Choices, MaxChoices)}
Responses == {PyDict(d) : d \in Dicts({"choices"}, ChoiceLists)}

NoExtraction == [op |-> "none", response |-> PyNone, exc |-> "none", val |-> None,
                 msg_repr |-> None]

\* llm.first_choice_text(response)
FirstChoiceText ==
    /\ extraction.op = "pending"
    /\ LET r == first_choice_text(extraction.response)
       IN  extraction' = [extraction EXCEPT !.op = "first_choice_text", !.exc = r.exc,
                                            !.val = r.val, !.msg_repr = r.msg_repr]
    /\ UNCHANGED <<wrappers, openai_api_global, endpoint, last, pgvector, tasks, executors, rendered>>

\* llm.first_choice_message(response)
FirstChoiceMessage ==
    /\ extraction.op = "pending"
    /\ LET r == first_choice_message(extraction.response)
       IN  extraction' = [extraction EXCEPT !.op = "first_choice_message", !.exc = r.exc,
                                            !.val = r.val, !.msg_repr = r.msg_repr]
    /\ UNCHANGED <<wrappers, openai_api_global, endpoint, last, pgvector, tasks, executors, rendered>>

----------------------------------------------------------------------------
(* schedule_callable and openai_api.wrap_for_multiproc *)

Tasks == 1..MaxTasks

\* module-level functions given to schedule_callable: identity(x) returns x,
\* lookup(key, **kw) returns kw.get(key), fail(x, **kw) raises ValueError
Functions == {"identity", "lookup", "fail"}

\* the positional arguments and the keyword arguments of a dispatch
PositionalArgs == {<<"temperature">>}
DispatchKwargs == Dicts({"temperature"}, CallValues)

\* what the request function does in the worker
WorkerApis == {[raises |-> TRUE, model |-> None], [raises |-> FALSE, model |-> "served"]}

\* the outcome of a call: the exception raised or the value returned
NoOutcome == [exc |-> "none", val |-> None]

NoTask ==
    [state |-> "none", via |-> None, callable |-> None, w |-> 0, self |-> NoWrapper,
     args |-> <<>>, kwargs |-> EmptyDict, caller_kwargs |-> EmptyDict,
     executor |-> 0, ans |-> [kind |-> "error", data |-> <<>>], api |-> NoApi,
     request |-> NoRequest, future |-> NoOutcome, result |-> NoOutcome]

\* function(*args, **kwargs) for the module-level functions
apply_function(function, args, kwargs) ==
    CASE function = "identity" ->
            IF Len(args) # 1 \/ DOMAIN kwargs # {} THEN Raise("TypeError")
            ELSE Ret(args[1])
      [] function = "lookup" ->
            IF Len(args) # 1 THEN Raise("TypeError")
            ELSE Ret(IF args[1] \in DOMAIN kwargs THEN kwargs[args[1]] ELSE None)
      [] OTHER -> Raise("ValueError")

\* self(prompt, **kwargs) for a wrapper of either class
wrapper_call(self, glob, kwargs, ans, api) ==
    IF self.cls = "openai_chat_api"
    THEN openai_chat_api_call(self, glob, kwargs, ans, api)
    ELSE openai_api_call(self, glob, kwargs, ans, api)

\* prepped_callable(*args), prepped_callable = partial(callable, **kwargs), as
\* the worker process runs it: on its own copy of the wrapper and of the
\* openai globals; [exc, val, request]
prepped_callable(task, glob, ans, api) ==
    IF task.callable = "self"
    THEN LET r == wrapper_call(task.self, glob, task.kwargs, ans, api)
         IN  [exc |-> r.exc, val |-> r.ret, request |-> r.request]
    ELSE LET r == apply_function(task.callable, task.args, task.kwargs)
         IN  [exc |-> r.exc, val |-> r.val, request |-> NoRequest]

\* tasks are numbered in the order they are dispatched
Dispatchable(t) ==
    /\ tasks[t].state = "none"
    /\ \A u \in Tasks : u < t => tasks[u].state # "none"

\* asyncio.create_task(schedule_callable(function, *args, **kwargs)): the
\* coroutine is created with its arguments bound and left to the event loop
ScheduleCallable(t, function, args, kwargs) ==
    /\ Dispatchable(t)
    /\ tasks' = [tasks EXCEPT ![t] =
                    [NoTask EXCEPT !.state = "scheduled", !.via = "schedule_callable",
                                   !.callable = function, !.args = args,
                                   !.kwargs = kwargs, !.caller_kwargs = kwargs]]
    /\ UNCHANGED <<wrappers, openai_api_global, endpoint, last, pgvector, extraction,
                   executors, rendered>>

\* w.wrap_for_multiproc(prompt, **kwargs): the bag and the call-time
\* parameters are merged and given to schedule_callable as keyword arguments
WrapForMultiproc(t, w, prompt, kwargs) ==
    /\ Dispatchable(t)
    /\ wrappers[w].live
    /\ tasks' = [tasks EXCEPT ![t] =
                    [NoTask EXCEPT !.state = "scheduled", !.via = "wrap_for_multiproc",
                                   !.callable = "self", !.w = w, !.args = prompt,
                                   !.kwargs = merged_kwargs(wrappers[w].parameters, kwargs),
                                   !.caller_kwargs = kwargs]]
    /\ UNCHANGED <<wrappers, openai_api_global, endpoint, last, pgvector, extraction,
                   executors, rendered>>

\* the coroutine runs up to its await: a new ProcessPoolExecutor, the partial,
\* and run_in_executor hands the pickled call to the pool
Submit(t) ==
    /\ tasks[t].state = "scheduled"
    /\ LET executor == Cardinality(executors) + 1
       IN  /\ executors' = executors \cup {executor}
           /\ tasks' = [tasks EXCEPT ![t].state = "submitted",
                                     ![t].executor = executor,
                                     ![t].self = IF tasks[t].callable = "self"
                                                 THEN wrappers[tasks[t].w]
                                                 ELSE NoWrapper]
    /\ UNCHANGED <<wrappers, openai_api_global, endpoint, last, pgvector, extraction,
                   rendered>>

\* a worker of the task's pool runs the call and completes the future; the
\* wrapper and the openai globals of the dispatching process are not touched
WorkerRun(t, api) ==
    /\ tasks[t].state = "submitted"
    /\ LET r == prepped_callable(tasks[t], openai_api_global, endpoint, api)
       IN  tasks' = [tasks EXCEPT ![t].state = "finished",
                                  ![t].ans = endpoint, ![t].api = api,
                                  ![t].request = r.request,
                                  ![t].future = [exc |-> r.exc, val |-> r.val]]
    /\ UNCHANGED <<wrappers, openai_api_global, endpoint, last, pgvector, extraction,
                   executors, rendered>>

\* the event loop resumes the coroutine with the future's outcome:
\* response = await ...; return response
Resume(t) ==
    /\ tasks[t].state = "finished"
    /\ tasks' = [tasks EXCEPT ![t].state = "done", ![t].result = tasks[t].future]
    /\ UNCHANGED <<wrappers, openai_api_global, endpoint, last, pgvector, extraction,
                   executors, rendered>>

----------------------------------------------------------------------------
(* make_prompt: pylib/model_style/alvic.py *)

\* A text is the sequence of its pieces: a newline, or a run of characters
\* holding none.  Concatenation of texts is concatenation of sequences.
cr == "\n"

\* class sub_style(Enum)
ALPACA == "sub_style.ALPACA"
ALPACA_INSTRUCT == "sub_style.ALPACA_INSTRUCT"
VICUNA == "sub_style.VICUNA"
sub_style == {ALPACA, ALPACA_INSTRUCT, VICUNA}

\* ALPACA_PROMPT_TMPL.format(instru_marker=..., instru_inputs=...)
ALPACA_PROMPT_TMPL(instru_marker, instru_inputs) ==
    instru_marker \o instru_inputs \o <<cr, cr, "### Response:", cr>>

\* VICUNA_PROMPT_TMPL.format(query=...)
VICUNA_PROMPT_TMPL(query) ==
    <<"### USER:", cr, cr>> \o query \o <<cr, cr, "### ASSISTANT:", cr>>

\* a body that ends with the message or the inputs block, no newline after it
instru_inputs_unterminated(msg, inputs) ==
    msg \o <<cr>> \o (IF inputs # <<>> THEN <<"### Inputs:", cr>> \o inputs ELSE <<>>)

\* instru_inputs = f'{msg}\n{"### Inputs:" + cr + inputs if inputs else ""}\n'
instru_inputs(msg, inputs) ==
    msg \o <<cr>> \o (IF inputs # <<>> THEN <<"### Inputs:", cr>> \o inputs ELSE <<>>)
        \o <<cr>>

\* instru_marker = '### Instruction:\n\n' if sub == ALPACA_INSTRUCT else ''
instru_marker(sub) ==
    IF sub = ALPACA_INSTRUCT THEN <<"### Instruction:", cr, cr>> ELSE <<>>

\* make_prompt(msg, inputs='', sub=sub_style.ALPACA)
make_prompt(msg, inputs, sub) ==
    IF sub \in {ALPACA, ALPACA_INSTRUCT}
    THEN Ret(ALPACA_PROMPT_TMPL(instru_marker(sub), instru_inputs(msg, inputs)))
    ELSE IF sub = VICUNA
    THEN Ret(VICUNA_PROMPT_TMPL(msg))
    ELSE Raise("ValueError")

\* the pieces of a message and of an auxiliary input
MsgPieces == {"Knock knock!", cr, "### Inputs:"}
InputPieces == {"aux", cr}
PromptMessages == SeqsUpTo(MsgPieces, MaxTextLen)
PromptInputs == SeqsUpTo(InputPieces, MaxTextLen)
\* the selectors given: the three styles and a value that is none of them
SubArgs == sub_style \cup {"alpaca"}

NoRendering ==
    [op |-> "none", msg |-> <<>>, inputs |-> <<>>, sub |-> ALPACA,
     exc |-> "none", val |-> <<>>]

\* make_prompt(msg, inputs, sub)
MakePrompt ==
    /\ rendered.op = "pending"
    /\ LET r == make_prompt(rendered.msg, rendered.inputs, rendered.sub)
       IN  rendered' = [rendered EXCEPT !.op = "make_prompt", !.exc = r.exc,
                                        !.val = IF r.exc = "none" THEN r.val ELSE <<>>]
    /\ UNCHANGED <<wrappers, openai_api_global, endpoint, last, pgvector, extraction,
                   tasks, executors>>

----------------------------------------------------------------------------
(* The operations of a process holding wrappers *)

NoOp ==
    [op |-> "none", w |-> 0, exc |-> "none", model_arg |-> None, queries |-> 0,
     kwargs |-> EmptyDict, api |-> NoApi, request |-> NoRequest,
     ret |-> None, ret_type |-> "NoneType"]

InitOn(Answers) ==
    /\ wrappers = [w \in Wrappers |-> NoWrapper]
    /\ openai_api_global = ImportedGlobal(None)
    /\ endpoint \in Answers
    /\ last = NoOp
    /\ pgvector = NoHelperCall
    /\ extraction = NoExtraction
    /\ tasks = [t \in Tasks |-> NoTask]
    /\ executors = {}
    /\ rendered = NoRendering

\* the endpoint starts to answer differently (another model is loaded, it goes down)
Serve(ans) ==
    /\ endpoint # ans
    /\ endpoint' = ans
    /\ last' = NoOp
    /\ UNCHANGED <<wrappers, openai_api_global, pgvector, extraction, tasks, executors, rendered>>

\* w = cls(model=model, api_base=api_base, api_key=api_key, **kwargs); the
\* query of __init__ and the one of _claim_global_context get the same answer.
\* A failed construction leaves no instance, but the globals written by
\* _claim_global_context before its query failed stay written.
Construct(w, cls, model, api_base, api_key, kwargs, environ) ==
    /\ ~wrappers[w].live
    /\ LET i == openai_api_init(cls, model, api_base, api_key, kwargs, environ, endpoint)
           c == claim_global_context(i.self, openai_api_global, endpoint)
           exc == IF i.exc # "none" THEN i.exc ELSE c.exc
       IN  /\ wrappers' = IF exc = "none" THEN [wrappers EXCEPT ![w] = c.self] ELSE wrappers
           /\ openai_api_global' = IF i.exc = "none" THEN c.glob ELSE openai_api_global
           /\ last' = [NoOp EXCEPT !.op = "init", !.w = w, !.exc = exc,
                          !.model_arg = model,
                          !.queries = IF i.exc = "none" THEN i.queries + c.queries
                                      ELSE i.queries]
    /\ UNCHANGED <<endpoint, pgvector, extraction, tasks, executors, rendered>>

\* w(prompt, **kwargs) or w(messages, **kwargs)
Invoke(w, kwargs, api) ==
    /\ wrappers[w].live
    /\ LET self == wrappers[w]
           r == IF self.cls = "openai_chat_api"
                THEN openai_chat_api_call(self, openai_api_global, kwargs, endpoint, api)
                ELSE openai_api_call(self, openai_api_global, kwargs, endpoint, api)
       IN  /\ wrappers' = [wrappers EXCEPT ![w] = r.self]
           /\ openai_api_global' = r.glob
           /\ last' = [NoOp EXCEPT !.op = "call", !.w = w, !.exc = r.exc,
                          !.kwargs = kwargs,
                          !.api = api, !.request = r.request,
                          !.ret = r.ret,
                          !.ret_type = IF r.exc = "none" THEN "dict" ELSE "NoneType"]
    /\ UNCHANGED <<endpoint, pgvector, extraction, tasks, executors, rendered>>

\* w.hosted_model()
HostedModel(w) ==
    /\ wrappers[w].live
    /\ LET r == hosted_model(wrappers[w].model, endpoint)
       IN  last' = [NoOp EXCEPT !.op = "hosted_model", !.w = w, !.exc = r.exc,
                       !.queries = 1, !.ret = r.val,
                       !.ret_type = IF r.exc = "none" THEN "str" ELSE "NoneType"]
    /\ UNCHANGED <<wrappers, openai_api_global, endpoint, pgvector, extraction, tasks, executors, rendered>>

----------------------------------------------------------------------------
(* Specifications.  Each explores the same operations over the inputs its   *)
(* claims are about; the other inputs are held to one value.                *)

Served == {[raises |-> FALSE, model |-> "served"]}
NoBase == [authority |-> "", path |-> ""]
LocalBase == [authority |-> "http://localhost:8000", path |-> ""]

\* the answers of an endpoint that serves at most one model
SingleAnswers == {a \in HttpAnswers : Len(a.data) <= 1 /\ a.kind # "no_httpx"}

\* instances are numbered in the order they are constructed
Constructible(w) ==
    /\ ~wrappers[w].live
    /\ \A v \in Wrappers : v < w => wrappers[v].live

\* several wrappers of one process sharing the openai globals
Next ==
    \/ \E ans \in SingleAnswers : Serve(ans)
    \/ \E w \in Wrappers :
        /\ Constructible(w)
        /\ \E model \in ModelArgs, api_base \in {NoBase, LocalBase},
              api_key \in ApiKeyArgs, kwargs \in Dicts({"organization"}, ParamValues) :
                Construct(w, "openai_api", model, api_base, api_key, kwargs, None)
    \/ \E w \in Wrappers, api \in Served : Invoke(w, EmptyDict, api)

Init == InitOn(SingleAnswers)

Spec == Init /\ [][Next]_vars

\* one wrapper of either class, its parameter bag and its calls
NextInvoke ==
    \/ \E ans \in SingleAnswers : Serve(ans)
    \/ /\ Constructible(1)
       /\ \E cls \in Classes, model \in ModelArgs, kwargs \in Bags :
               Construct(1, cls, model, NoBase, None, kwargs, None)
    \/ \E kwargs \in Overrides, api \in ApiBehaviours : Invoke(1, kwargs, api)

SpecInvoke == Init /\ [][NextInvoke]_vars

\* construction and model discovery against every answer of the endpoint
NextDiscover ==
    \/ \E ans \in HttpAnswers : Serve(ans)
    \/ /\ Constructible(1)
       /\ \E cls \in Classes, model \in ModelArgs, api_base \in ApiBaseArgs,
             api_key \in ApiKeyArgs, environ \in Environ :
               Construct(1, cls, model, api_base, api_key, EmptyDict, environ)
    \/ HostedModel(1)

InitDiscover == InitOn(HttpAnswers)

SpecDiscover == InitDiscover /\ [][NextDiscover]_vars

\* constructions of the vector-store helper over every table name
InitTable ==
    /\ wrappers = [w \in Wrappers |-> NoWrapper]
    /\ openai_api_global = ImportedGlobal(None)
    /\ endpoint = [kind |-> "error", data |-> <<>>]
    /\ last = NoOp
    /\ tasks = [t \in Tasks |-> NoTask]
    /\ executors = {}
    /\ rendered = NoRendering
    /\ extraction = NoExtraction
    /\ pgvector \in {[NoHelperCall EXCEPT !.op = "pending", !.PREREQS_AVAILABLE = p,
                                          !.embedding_model = e, !.table_name = n] :
                        p \in BOOLEAN, e \in EmbeddingModels, n \in TableNames}

NextTable == NewHelper \/ FromConnection

SpecTable == InitTable /\ [][NextTable]_vars

\* extractions from every response
InitExtract ==
    /\ wrappers = [w \in Wrappers |-> NoWrapper]
    /\ openai_api_global = ImportedGlobal(None)
    /\ endpoint = [kind |-> "error", data |-> <<>>]
    /\ last = NoOp
    /\ tasks = [t \in Tasks |-> NoTask]
    /\ executors = {}
    /\ rendered = NoRendering
    /\ pgvector = NoHelperCall
    /\ extraction \in {[NoExtraction EXCEPT !.op = "pending", !.response = r] :
                          r \in Responses}

NextExtract == FirstChoiceText \/ FirstChoiceMessage

SpecExtract == InitExtract /\ [][NextExtract]_vars

\* one wrapper of either class and the calls dispatched to worker processes
ScheduleBags == Dicts({"temperature"}, {"a"})

NextSchedule ==
    \/ /\ Constructible(1)
       /\ \E cls \in Classes, model \in ModelArgs, kwargs \in ScheduleBags :
               Construct(1, cls, model, NoBase, None, kwargs, None)
    \/ \E t \in Tasks, function \in Functions, args \in PositionalArgs,
          kwargs \in DispatchKwargs : ScheduleCallable(t, function, args, kwargs)
    \/ \E t \in Tasks, kwargs \in DispatchKwargs : WrapForMultiproc(t, 1, <<"hi">>, kwargs)
    \/ \E t \in Tasks : Submit(t)
    \/ \E t \in Tasks, api \in WorkerApis : WorkerRun(t, api)
    \/ \E t \in Tasks : Resume(t)

SpecSchedule == Init /\ [][NextSchedule]_vars

\* the event loop runs every ready coroutine, and every pool runs the call
\* handed to it
FairSpecSchedule ==
    /\ SpecSchedule
    /\ \A t \in Tasks :
          /\ WF_vars(Submit(t))
          /\ WF_vars(\E api \in WorkerApis : WorkerRun(t, api))
          /\ WF_vars(Resume(t))

\* renderings of every message, auxiliary input and selector
InitPrompt ==
    /\ wrappers = [w \in Wrappers |-> NoWrapper]
    /\ openai_api_global = ImportedGlobal(None)
    /\ endpoint = [kind |-> "error", data |-> <<>>]
    /\ last = NoOp
    /\ pgvector = NoHelperCall
    /\ extraction = NoExtraction
    /\ tasks = [t \in Tasks |-> NoTask]
    /\ executors = {}
    /\ rendered \in {[NoRendering EXCEPT !.op = "pending", !.msg = m, !.inputs = i,
                                          !.sub = s] :
                        m \in PromptMessages, i \in PromptInputs, s \in SubArgs}

NextPrompt == MakePrompt

SpecPrompt == InitPrompt /\ [][NextPrompt]_vars

----------------------------------------------------------------------------
(* Claims about the wrappers *)

\* the wrapper the last operation was performed on
Self == wrappers[last.w]

IssuedCall == last.op = "call" /\ last.request.issued

\* C1: when Invoke of a completion wrapper issues its request, the openai
\* globals hold this wrapper's model, api_key and api_base, and the bag's
\* value for every recognized global key of its parameter bag
C1_GlobalsHoldInvoker ==
    (IssuedCall /\ Self.cls = "openai_api") =>
        /\ openai_api_global["model"] = Self.model
        /\ openai_api_global["api_key"] = Self.api_key
        /\ openai_api_global["api_base"] = Self.api_base
        /\ \A k \in OPENAI_GLOBALS \cap DOMAIN Self.parameters :
              openai_api_global[k] = Self.parameters[k]

\* C2: a request is issued under globals determined by the invoking wrapper
\* alone: a recognized key its bag does not set holds no value another
\* wrapper wrote, it is as the import of the library left it
C2_NoForeignSetting ==
    IssuedCall =>
        \A k \in OPENAI_GLOBALS \ ({"api_key", "api_base"} \cup DOMAIN Self.parameters) :
            openai_api_global[k] = ImportedGlobal(None)[k]

\* C4: Invoke of a completion wrapper returns a raw response of model
\* HOSTED_MODEL with the wrapper's resolved model, any other unchanged
C4_SentinelRewritten ==
    (last.op = "call" /\ last.exc = "none" /\ Self.cls = "openai_api") =>
        /\ last.api.model = "HOSTED_MODEL" => last.ret = Self.model
        /\ last.api.model # "HOSTED_MODEL" => last.ret = last.api.model

C4_Witness ==
    /\ last.op = "call" /\ last.exc = "none" /\ Self.cls = "openai_api"
    /\ last.api.model = "HOSTED_MODEL"
    /\ last.ret = "mistral"
    /\ Self.original_model = None

\* C5: a call leaves the stored parameter bag as it was; the request of a
\* completion wrapper carries the keys of the bag and of the call-time
\* parameters, with the call-time value for a key of both, and is issued
\* whenever the context is claimed and no call-time parameter is named model
C5_MergeKeepsBag ==
    [][last'.op = "call" =>
        LET before == wrappers[last'.w]
            kwargs == last'.kwargs
            sent == last'.request
        IN  /\ wrappers'[last'.w].parameters = before.parameters
            /\ before.cls = "openai_api" =>
                /\ sent.issued <=>
                     (last'.exc \in {"none", "APIError"} /\ "model" \notin DOMAIN kwargs)
                /\ sent.issued =>
                     /\ DOMAIN sent.params = (DOMAIN before.parameters) \cup (DOMAIN kwargs)
                     /\ \A k \in DOMAIN kwargs : sent.params[k] = kwargs[k]
                     /\ \A k \in (DOMAIN before.parameters) \ (DOMAIN kwargs) :
                           sent.params[k] = before.parameters[k]]_vars

C5_Witness ==
    /\ IssuedCall /\ Self.cls = "openai_api"
    /\ "temperature" \in DOMAIN Self.parameters /\ "temperature" \in DOMAIN last.kwargs
    /\ Self.parameters["temperature"] # last.kwargs["temperature"]
    /\ "organization" \in DOMAIN last.request.params

\* C6: Invoke of a chat wrapper does what Invoke of a completion wrapper does
\* with the same stored parameters, call-time parameters and raw response:
\* the same failure or none, the same request parameters, returned model
\* field, globals and wrapper state
C6_ChatAsCompletion ==
    [][(last'.op = "call" /\ wrappers[last'.w].cls = "openai_chat_api") =>
        LET r == openai_api_call(wrappers[last'.w], openai_api_global, last'.kwargs,
                                 endpoint, last'.api)
        IN  /\ last'.exc = r.exc
            /\ last'.request = r.request
            /\ last'.ret = r.ret
            /\ openai_api_global' = r.glob
            /\ wrappers'[last'.w] = r.self]_vars

\* C7 as claimed: a call that fails because the request function or the
\* discovery query raises leaves the wrapper's model, original model, api_key,
\* api_base and parameter bag as they were
C7_FailureKeepsState ==
    [][(last'.op = "call" /\ last'.exc \notin {"none", "TypeError"}) =>
        wrappers'[last'.w] = wrappers[last'.w]]_vars

\* C7 as amended: a call that fails leaves the wrapper's original model,
\* api_key, api_base and parameter bag as they were, and its model too when
\* the wrapper was built with an explicit model or the discovery query is what
\* failed; otherwise the model is the former one or the first id the endpoint
\* reports, whatever the request function did after the discovery
C7_FailureKeepsConfig ==
    [][(last'.op = "call" /\ last'.exc # "none") =>
        LET before == wrappers[last'.w]
            after == wrappers'[last'.w]
        IN  /\ after.original_model = before.original_model
            /\ after.api_key = before.api_key
            /\ after.api_base = before.api_base
            /\ after.parameters = before.parameters
            /\ after.cls = before.cls /\ after.live
            /\ (before.original_model # None \/ ~(last'.exc \in {"APIError", "TypeError"}))
                  => after.model = before.model
            /\ after.model # before.model =>
                  /\ endpoint.kind = "json" /\ Len(endpoint.data) > 0
                  /\ after.model = endpoint.data[1]
            /\ last'.exc = "APIError" <=> (last'.request.issued /\ last'.api.raises)]_vars

C7_Witness ==
    /\ last.op = "call" /\ last.exc = "APIError"
    /\ Self.original_model = None
    /\ openai_api_global["model"] # Self.model

----------------------------------------------------------------------------
(* Claims about model discovery *)

OneModel == endpoint.kind = "json" /\ Len(endpoint.data) = 1

\* C3: construction with an explicit model makes no discovery query and the
\* wrapper's model is the given name; construction without one queries, and
\* when the endpoint reports exactly one model the wrapper's model is its id
C3_ModelResolution ==
    last.op = "init" =>
        /\ last.model_arg # None =>
              /\ last.queries = 0
              /\ last.exc = "none" /\ Self.model = last.model_arg
        /\ last.model_arg = None =>
              /\ last.queries > 0
              /\ OneModel => (last.exc = "none" /\ Self.model = endpoint.data[1])

\* C10: hosted_model returns the full list of reported ids when the endpoint
\* reports more than one model, the wrapper's current model when it reports one
C10_HostedModel ==
    (last.op = "hosted_model" /\ endpoint.kind = "json") =>
        /\ Len(endpoint.data) > 1 =>
              (last.exc = "none" /\ last.ret_type = "list" /\ last.ret = endpoint.data)
        /\ Len(endpoint.data) = 1 =>
              (last.exc = "none" /\ last.ret = Self.model)

----------------------------------------------------------------------------
(* Claims about the vector-store helper *)

Constructed == pgvector.op \in {"__init__", "from_connection"}

NameChar(i) == pgvector.table_name[i]
NameIndices == 1..Len(pgvector.table_name)

\* the failure the table-name check raises
NameRejected ==
    pgvector.exc = "ValueError" /\ pgvector.msg = "table_name must be alphanumeric"

----------------------------------------------------------------------------
(* Claims about the extraction helpers *)

Extracted == extraction.op \in {"first_choice_text", "first_choice_message"}

\* the value at choices[0].text or choices[0].message.content of a response
\* that is a mapping whose choices is a non-empty sequence of mappings, as a
\* one-element set; empty when the response lacks the path
ValueAtPath ==
    LET r == extraction.response IN
    IF ~(r.t = "dict" /\ "choices" \in DOMAIN r.d) THEN {}
    ELSE LET cs == r.d["choices"] IN
    IF ~(cs.t = "list" /\ Len(cs.l) > 0) THEN {}
    ELSE LET c == cs.l[1] IN
    IF c.t # "dict" THEN {}
    ELSE IF extraction.op = "first_choice_text"
    THEN (IF "text" \in DOMAIN c.d THEN {c.d["text"]} ELSE {})
    ELSE IF ~("message" \in DOMAIN c.d) THEN {}
    ELSE LET m == c.d["message"] IN
    IF m.t = "dict" /\ "content" \in DOMAIN m.d THEN {m.d["content"]} ELSE {}

\* C9: on a response that lacks the path the extraction helper fails with
\* RuntimeError whose message includes the response; on one that has the path
\* it returns the value there
C9_ExtractionOrShapeError ==
    Extracted =>
        IF ValueAtPath = {}
        THEN extraction.exc = "RuntimeError" /\ extraction.msg_repr = extraction.response
        ELSE extraction.exc = "none" /\ extraction.val \in ValueAtPath

----------------------------------------------------------------------------
(* Claims about the dispatch to worker processes *)

Awaited(t) == tasks[t].state = "done"

\* what the dispatched callable yields when it is applied, in place, to the
\* arguments the dispatcher was given: [exc, val]
DirectOutcome(t) ==
    LET task == tasks[t] IN
    IF task.via = "schedule_callable"
    THEN apply_function(task.callable, task.args, task.caller_kwargs)
    ELSE LET r == wrapper_call(task.self, openai_api_global, task.caller_kwargs,
                               task.ans, task.api)
         IN  [exc |-> r.exc, val |-> r.ret]

\* C11: an awaited dispatch yields the outcome of its callable applied to the
\* positional and keyword arguments given, the value returned or the failure
\* raised, whatever the order in which the dispatches complete, and no two
\* dispatches use the same worker pool
C11_DispatchYieldsOutcome ==
    \A t \in Tasks :
        Awaited(t) =>
            /\ tasks[t].result = DirectOutcome(t)
            /\ tasks[t].executor \in executors
            /\ \A u \in Tasks \ {t} : tasks[u].executor # tasks[t].executor

\* every dispatch is resolved in the end (under FairSpecSchedule)
EveryDispatchResolves ==
    \A t \in Tasks : (tasks[t].state # "none") ~> Awaited(t)

\* the dispatches of a chat wrapper that stores parameters
ChatWithBag(t) ==
    /\ tasks[t].via = "wrap_for_multiproc"
    /\ tasks[t].self.cls = "openai_chat_api"
    /\ tasks[t].self.parameters # EmptyDict

\* all other dispatches yield the outcome of their callable
OtherDispatchesYieldOutcome ==
    \A t \in Tasks :
        (Awaited(t) /\ ~ChatWithBag(t)) => tasks[t].result = DirectOutcome(t)

\* a dispatch of a chat wrapper that stores parameters fails with TypeError
ChatWithBagFails ==
    \A t \in Tasks :
        (Awaited(t) /\ ChatWithBag(t)) => tasks[t].result = Raise("TypeError")

----------------------------------------------------------------------------
(* Claims about make_prompt *)

RenderedAlpaca ==
    rendered.op = "make_prompt" /\ rendered.sub \in {ALPACA, ALPACA_INSTRUCT}

\* the text has a line "### Inputs:" and the auxiliary text right after it
HasInputsLine(text, inputs) ==
    \E i \in 1..Len(text) :
        /\ text[i] = "### Inputs:"
        /\ i = 1 \/ text[i - 1] = cr
        /\ i + 1 + Len(inputs) <= Len(text)
        /\ SubSeq(text, i + 1, i + 1 + Len(inputs)) = <<cr>> \o inputs

\* the line "### Instruction:" and a blank line, for ALPACA_INSTRUCT only
InstructionPrefix ==
    IF rendered.sub = ALPACA_INSTRUCT THEN <<"### Instruction:", cr, cr>> ELSE <<>>

\* C12 as claimed: with empty auxiliary input the ALPACA rendering is the
\* message followed by three newlines and the "### Response:" line, the
\* ALPACA_INSTRUCT rendering the same after "### Instruction:" and a blank
\* line; a "### Inputs:" line followed by the auxiliary text is in the
\* rendering only when the auxiliary input is not empty
C12_ThreeNewlines ==
    RenderedAlpaca =>
        /\ rendered.exc = "none"
        /\ rendered.inputs = <<>> =>
              rendered.val = InstructionPrefix \o rendered.msg
                                 \o <<cr, cr, cr, "### Response:", cr>>
        /\ HasInputsLine(rendered.val, rendered.inputs) => rendered.inputs # <<>>

\* C12 as amended: with empty auxiliary input the message is followed by four
\* newlines and the "### Response:" line; with auxiliary input by a newline,
\* the "### Inputs:" line, the auxiliary text, three newlines and the
\* "### Response:" line; ALPACA_INSTRUCT puts "### Instruction:" and a blank
\* line before either.  For a message with no "### Inputs:" in it, the
\* rendering has the "### Inputs:" line followed by the auxiliary text
\* exactly when the auxiliary input is not empty
C12_FourNewlines ==
    RenderedAlpaca =>
        /\ rendered.exc = "none"
        /\ rendered.inputs = <<>> =>
              rendered.val = InstructionPrefix \o rendered.msg
                                 \o <<cr, cr, cr, cr, "### Response:", cr>>
        /\ rendered.inputs # <<>> =>
              rendered.val = InstructionPrefix \o rendered.msg
                                 \o <<cr, "### Inputs:", cr>> \o rendered.inputs
                                 \o <<cr, cr, cr, "### Response:", cr>>
        /\ (\A i \in 1..Len(rendered.msg) : rendered.msg[i] # "### Inputs:") =>
              (HasInputsLine(rendered.val, rendered.inputs) <=> rendered.inputs # <<>>)

C12_Witness ==
    /\ rendered.op = "make_prompt" /\ rendered.sub = ALPACA
    /\ rendered.msg = <<"Knock knock!">> /\ rendered.inputs = <<>>
    /\ rendered.val = <<"Knock knock!", cr, cr, cr, cr, "### Response:", cr>>

=============================================================================
